---------------------------- MODULE Spec2Model ----------------------------
(***************************************************************************)
(* Camera / projection commands (camera, perspective, ortho) and the image *)
(* pipeline (loadImage, image, tint, noTint, _getTintedImageCanvas,        *)
(* imageMode) of p5.js, as state machines over the renderer's fields.      *)
(*                                                                         *)
(* Numbers.  JavaScript numbers are doubles.  The ortho box, the view      *)
(* translation, the image rectangles and the pixel channels are modelled   *)
(* with exact integers.  The perspective parameters are fixed-point        *)
(* thousandths (1000 stands for 1.0; angles are milliradians), because the *)
(* defaults divide by tan(fovy/2).                                         *)
(*                                                                         *)
(* Arguments.  A call's argument list is the sequence `arguments`; a       *)
(* position beyond its length is JavaScript's undefined.  A single         *)
(* optional value is a sequence of length 0 (undefined) or 1.              *)
(***************************************************************************)
EXTENDS Integers, Sequences, FiniteSets, TLC

VARIABLES
    width, height,      \* size of the render surface (this.width, this.height)
    uMVMatrix,          \* this._renderer.uMVMatrix, 16 coefficients, column-major
    uPMatrix,           \* this._renderer.uPMatrix
    curCamera,          \* this._renderer._curCamera
    tintLevels,         \* this._renderer._tint: <<>> is null, else <<r, g, b, a>>
    imageMode,          \* this._renderer._imageMode
    lastOp, lastArgs,   \* history: the last call made and its argument list
    camHistory,         \* history: the positions passed to camera(), in order
    projInvoked,        \* history: perspective() or ortho() has been called
    nCalls,             \* history: number of calls made on the renderer
    drawImg, drawArgs,  \* the image and the argument list a sketch passes to image()
    drawCall,           \* <<>> or the last call image() made to this._renderer.image
    srcImage,           \* the image a sketch passes to _getTintedImageCanvas()
    tinted,             \* <<>> or what _getTintedImageCanvas() last returned
    loads               \* the loadImage() requests: callbacks, progress, calls made

rvars == <<width, height, uMVMatrix, uPMatrix, curCamera, tintLevels,
           imageMode, lastOp, lastArgs, camHistory, projInvoked, nCalls>>

ivars == <<drawImg, drawArgs, drawCall>>
tvars == <<srcImage, tinted>>

vars == <<rvars, ivars, tvars, loads>>

-----------------------------------------------------------------------------
(* Bounds of the model *)

\* calls made on one renderer in a run
MaxCalls == 3
\* largest width and height of a bitmap
MaxDim == 3
\* loadImage() requests in a run
MaxLoads == 1

-----------------------------------------------------------------------------
(* JavaScript helpers *)

\* arguments[i], as an optional value
Arg(args, i) == IF i <= Len(args) THEN <<args[i]>> ELSE <<>>

\* a || d for an optional number a: undefined and 0 are falsy
OrDefault(a, d) == IF a = <<>> \/ a[1] = 0 THEN d ELSE a[1]

Max(a, b) == IF a >= b THEN a ELSE b
Min(a, b) == IF a <= b THEN a ELSE b
Abs(a) == IF a >= 0 THEN a ELSE -a

\* all argument lists of length 0..Len(doms) whose i-th value is in doms[i]
RECURSIVE ArgLists(_)
ArgLists(doms) ==
    IF doms = <<>> THEN {<<>>}
    ELSE LET shorter == ArgLists(SubSeq(doms, 1, Len(doms) - 1))
         IN shorter \cup
            {Append(s, v) : s \in {t \in shorter : Len(t) = Len(doms) - 1},
                            v \in doms[Len(doms)]}

-----------------------------------------------------------------------------
(* p5.Matrix *)

Identity == <<1, 0, 0, 0,  0, 1, 0, 0,  0, 0, 1, 0,  0, 0, 0, 1>>

\* mat4 index i of the source is position i + 1 here
MatTranslate(m, x, y, z) ==
    [m EXCEPT ![13] = @ + m[1] * x + m[5] * y + m[9] * z,
              ![14] = @ + m[2] * x + m[6] * y + m[10] * z,
              ![15] = @ + m[3] * x + m[7] * y + m[11] * z,
              ![16] = @ + m[4] * x + m[8] * y + m[12] * z]

\* The projection matrices are kept as the builder applied to identity and
\* the parameters it was given.
IdentityProjection == [kind |-> "identity", p |-> <<>>]
MatPerspective(fovy, aspect, near, far) ==
    [kind |-> "perspective", p |-> <<fovy, aspect, near, far>>]
MatOrtho(left, right, bottom, top, near, far) ==
    [kind |-> "ortho", p |-> <<left, right, bottom, top, near, far>>]

ViewTranslation == <<uMVMatrix[13], uMVMatrix[14], uMVMatrix[15]>>

-----------------------------------------------------------------------------
(* Fixed-point trigonometry for perspective() *)

Pi == 3142                      \* this.PI, in milliradians
Deg60 == (60 * Pi) \div 180     \* 60 / 180 * this.PI
Deg90 == Pi \div 2

\* this.tan(fovy / 2), in thousandths, for the angles the model passes
TanHalf(fovy) ==
    CASE fovy = Deg60 -> 577
      [] fovy = Deg90 -> 1000
      [] fovy = -Deg90 -> -1000

\* (this.height / 2.0) / this.tan(fovy / 2.0) * scale, scale in tenths
FrustumDepth(h, fovy, scaleTenths) ==
    (((((h * 1000) \div 2) * 1000) \div TanHalf(fovy)) * scaleTenths) \div 10

-----------------------------------------------------------------------------
(* Inputs *)

SurfaceSizes == {<<100, 100>>, <<200, 100>>}

CamPositions == {<<0, 0, 0>>, <<0, 0, 100>>, <<10, -20, 0>>}

\* perspective(): every prefix of (fovy, aspect, near, far), each value 0
\* or the one listed; aspect -1 and far 0.5 <= near 1 are malformed
PerspectiveArgs ==
    ArgLists(<< {0, Deg90}, {0, -1000}, {0, 1000}, {0, 500} >> )

\* ortho(): every prefix of the box below, as it is and with one value 0,
\* and the box of six zeros
OrthoBox == <<-50, 50, -50, 50, 10, 500>>
OrthoArgs ==
    LET prefixes == {SubSeq(OrthoBox, 1, n) : n \in 0..Len(OrthoBox)}
    IN prefixes
       \cup UNION {{[s EXCEPT ![i] = 0] : i \in 1..Len(s)} : s \in prefixes}
       \cup {[i \in 1..Len(OrthoBox) |-> 0]}

CORNER == "corner"
CORNERS == "corners"
CENTER == "center"
RADIUS == "radius"
ModeArgs == {<<CORNER>>, <<CORNERS>>, <<CENTER>>, <<RADIUS>>, <<>>}

\* the levels this.color() resolves tint()'s arguments to
TintArgs == {<<0, 153, 204, 255>>, <<255, 255, 255, 128>>, <<1, 127, 254, 3>>}

-----------------------------------------------------------------------------
(* Renderer state after construction *)

InitRenderer(sizes) ==
    /\ \E wh \in sizes : width = wh[1] /\ height = wh[2]
    /\ uMVMatrix = Identity
    /\ uPMatrix = IdentityProjection
    /\ curCamera = "default"
    /\ tintLevels = <<>>
    /\ imageMode = CORNER
    /\ lastOp = "none"
    /\ lastArgs = <<>>
    /\ camHistory = <<>>
    /\ projInvoked = FALSE
    /\ nCalls = 0

-----------------------------------------------------------------------------
(* camera.js *)

\* p5.RendererGL.prototype.translate
RendererTranslate(x, y, z) ==
    uMVMatrix' = MatTranslate(uMVMatrix, x, y, z)

\* camera() translating from the identity instead of the current matrix
camera_fromIdentity(args) ==
    /\ uMVMatrix' = MatTranslate(Identity, -args[1], -args[2], -args[3])
    /\ UNCHANGED <<uPMatrix, curCamera, tintLevels, imageMode>>

camera(args) ==
    /\ RendererTranslate(-args[1], -args[2], -args[3])
    /\ UNCHANGED <<uPMatrix, curCamera, tintLevels, imageMode>>

\* one more call on the renderer
Call == nCalls < MaxCalls /\ nCalls' = nCalls + 1

Camera ==
    /\ Call
    /\ \E args \in CamPositions :
          /\ camera(args)
          /\ lastOp' = "camera"
          /\ lastArgs' = args
          /\ camHistory' = Append(camHistory, args)
    /\ UNCHANGED <<ivars, tvars, loads, width, height, projInvoked>>

\* the four assignments of perspective() that resolve its parameters
ResolvePerspective(args) ==
    LET fovy == OrDefault(Arg(args, 1), Deg60)
        aspect == OrDefault(Arg(args, 2), (width * 1000) \div height)
        near == OrDefault(Arg(args, 3), FrustumDepth(height, fovy, 1))
        far == OrDefault(Arg(args, 4), FrustumDepth(height, fovy, 100))
    IN <<fovy, aspect, near, far>>

\* a projection is well formed: 0 < fovy < PI, aspect > 0, 0 < near < far
ValidProjection(p) ==
    /\ 0 < p[1] /\ p[1] < Pi
    /\ p[2] > 0
    /\ p[3] > 0
    /\ p[4] > p[3]

\* perspective() without the assignment to _curCamera
perspective_keepsKind(args) ==
    LET p == ResolvePerspective(args)
    IN /\ uPMatrix' = MatPerspective(p[1], p[2], p[3], p[4])
       /\ UNCHANGED <<curCamera, uMVMatrix, tintLevels, imageMode>>

perspective(args) ==
    LET p == ResolvePerspective(args)
    IN /\ uPMatrix' = MatPerspective(p[1], p[2], p[3], p[4])
       /\ curCamera' = "custom"
       /\ UNCHANGED <<uMVMatrix, tintLevels, imageMode>>

Perspective ==
    /\ Call
    /\ \E args \in PerspectiveArgs :
          /\ perspective(args)
          /\ lastOp' = "perspective"
          /\ lastArgs' = args
    /\ projInvoked' = TRUE
    /\ UNCHANGED <<ivars, tvars, loads, width, height, camHistory>>

\* the six assignments of ortho() that resolve its parameters
ResolveOrtho(args) ==
    LET left == OrDefault(Arg(args, 1), (-width) \div 2)
        right == OrDefault(Arg(args, 2), width \div 2)
        bottom == OrDefault(Arg(args, 3), (-height) \div 2)
        top == OrDefault(Arg(args, 4), height \div 2)
        near == OrDefault(Arg(args, 5), 0)
        far == OrDefault(Arg(args, 6), Max(width, height))
    IN <<left, right, bottom, top, near, far>>

\* ortho() that also resets the view matrix
ortho_resetsView(args) ==
    LET p == ResolveOrtho(args)
    IN /\ uPMatrix' = MatOrtho(p[1], p[2], p[3], p[4], p[5], p[6])
       /\ curCamera' = "custom"
       /\ uMVMatrix' = Identity
       /\ UNCHANGED <<tintLevels, imageMode>>

ortho(args) ==
    LET p == ResolveOrtho(args)
    IN /\ uPMatrix' = MatOrtho(p[1], p[2], p[3], p[4], p[5], p[6])
       /\ curCamera' = "custom"
       /\ UNCHANGED <<uMVMatrix, tintLevels, imageMode>>

Ortho ==
    /\ Call
    /\ \E args \in OrthoArgs :
          /\ ortho(args)
          /\ lastOp' = "ortho"
          /\ lastArgs' = args
    /\ projInvoked' = TRUE
    /\ UNCHANGED <<ivars, tvars, loads, width, height, camHistory>>

-----------------------------------------------------------------------------
(* loading_displaying.js: renderer-wide style state *)

tint(levels) ==
    /\ tintLevels' = levels
    /\ UNCHANGED <<uMVMatrix, uPMatrix, curCamera, imageMode>>

Tint ==
    /\ Call
    /\ \E levels \in TintArgs :
          /\ tint(levels)
          /\ lastOp' = "tint"
          /\ lastArgs' = levels
    /\ UNCHANGED <<ivars, tvars, loads, width, height, camHistory, projInvoked>>

noTint ==
    /\ tintLevels' = <<>>
    /\ UNCHANGED <<uMVMatrix, uPMatrix, curCamera, imageMode>>

NoTint ==
    /\ Call
    /\ noTint
    /\ lastOp' = "noTint"
    /\ lastArgs' = <<>>
    /\ UNCHANGED <<ivars, tvars, loads, width, height, camHistory, projInvoked>>

RecognizedModes == {CORNER, CORNERS, CENTER}

\* imageMode() without the comparison against the three constants
setImageMode_unchecked(args) ==
    /\ imageMode' = IF Arg(args, 1) # <<>> THEN args[1] ELSE imageMode
    /\ UNCHANGED <<uMVMatrix, uPMatrix, curCamera, tintLevels>>

setImageMode(args) ==
    /\ imageMode' = IF Arg(args, 1) # <<>> /\ args[1] \in RecognizedModes
                    THEN args[1]
                    ELSE imageMode
    /\ UNCHANGED <<uMVMatrix, uPMatrix, curCamera, tintLevels>>

ImageMode ==
    /\ Call
    /\ \E args \in ModeArgs :
          /\ setImageMode(args)
          /\ lastOp' = "imageMode"
          /\ lastArgs' = args
    /\ UNCHANGED <<ivars, tvars, loads, width, height, camHistory, projInvoked>>

-----------------------------------------------------------------------------

(* loading_displaying.js: image() *)

\* A drawable: a p5.Image has a canvas and no elt; a video element has an
\* elt with videoWidth > 0 and no canvas; an <img> element has an elt with
\* no videoWidth.  styleWidth is parseInt(elt.style.width, 10), 0 when
\* elt.style.width is the empty string.
Bitmap(w, h) == [width |-> w, height |-> h, canvas |-> TRUE, elt |-> <<>>]
Element(w, h, vw, vh, sw) ==
    [width |-> w, height |-> h, canvas |-> FALSE,
     elt |-> <<[videoWidth |-> vw, videoHeight |-> vh, width |-> w,
                styleWidth |-> sw]>>]

Images ==
    {Bitmap(w, h) : w \in 1..MaxDim, h \in 1..MaxDim}
    \cup {Element(w, 2, 2, vh, sw) : w \in {2, 4}, vh \in {2, 4}, sw \in {0, 1}}
    \cup {Element(4, 2, 0, 0, sw) : sw \in {0, 2}}

\* image(img, dx, dy, dWidth, dHeight, sx, sy, sWidth, sHeight) after img
DrawArgs ==
    {a \in ArgLists(<< {0, 1}, {-1, 0}, {0, 5}, {0, 2}, {0, 1}, {1},
                       {-1, 0, 2, MaxDim}, {-2, 1, MaxDim} >>) : Len(a) >= 2}

\* img.elt && img.elt.videoWidth && !img.canvas
IsVideo(img) ==
    img.elt # <<>> /\ img.elt[1].videoWidth # 0 /\ ~img.canvas

DefW(img) == IF IsVideo(img) THEN img.elt[1].videoWidth ELSE img.width

DefH(img) ==
    IF IsVideo(img)
    THEN (img.elt[1].width * img.elt[1].videoHeight) \div img.elt[1].videoWidth
    ELSE img.height

\* _sAssign() without the test sVal > 0
_sAssign_noLowerTest(sVal, iVal) == IF sVal < iVal THEN sVal ELSE iVal

_sAssign(sVal, iVal) == IF sVal > 0 /\ sVal < iVal THEN sVal ELSE iVal

\* the pixel-density factor pd, as <<numerator, denominator>>
PixelDensity(img) ==
    IF img.elt # <<>> /\ img.elt[1].videoWidth # 0
       /\ img.elt[1].styleWidth # 0 /\ ~img.canvas
    THEN <<img.elt[1].videoWidth, img.elt[1].styleWidth>>
    ELSE IF img.elt # <<>> /\ img.elt[1].width # 0
            /\ img.elt[1].styleWidth # 0
         THEN <<img.elt[1].width, img.elt[1].styleWidth>>
         ELSE <<1, 1>>

\* canvas.modeAdjust(a, b, c, d, mode); x2 and y2 are twice x and y, so
\* that the centre mode's halves stay integers
modeAdjust(a, b, c, d, mode) ==
    CASE mode = CORNER -> [x2 |-> 2 * a, y2 |-> 2 * b, w |-> c, h |-> d]
      [] mode = CORNERS ->
            [x2 |-> 2 * Min(a, c), y2 |-> 2 * Min(b, d),
             w |-> Abs(c - a), h |-> Abs(d - b)]
      [] mode = CENTER -> [x2 |-> 2 * a - c, y2 |-> 2 * b - d, w |-> c, h |-> d]

\* _sw and _sh after _sAssign, before the pixel-density correction
SourceSize(img, args) ==
    LET _sw == OrDefault(Arg(args, 7), DefW(img))
        _sh == OrDefault(Arg(args, 8), DefH(img))
    IN <<_sAssign(_sw, DefW(img)), _sAssign(_sh, DefH(img))>>

\* the call image() makes to this._renderer.image
image(img, args) ==
    LET defW == DefW(img)
        defH == DefH(img)
        _dx == args[1]
        _dy == args[2]
        _dw == OrDefault(Arg(args, 3), defW)
        _dh == OrDefault(Arg(args, 4), defH)
        _sx == OrDefault(Arg(args, 5), 0)
        _sy == OrDefault(Arg(args, 6), 0)
        size == SourceSize(img, args)
        pd == PixelDensity(img)
        vals == modeAdjust(_dx, _dy, _dw, _dh, imageMode)
    IN [img |-> img, args |-> args, mode |-> imageMode,
        defW |-> defW, defH |-> defH, size |-> size,
        src |-> [x |-> _sx * pd[1], y |-> _sy * pd[1],
                 w |-> size[1] * pd[1], h |-> size[2] * pd[1], den |-> pd[2]],
        dest |-> vals]

Image ==
    /\ drawCall' = <<image(drawImg, drawArgs)>>
    /\ UNCHANGED <<rvars, drawImg, drawArgs, tvars, loads>>

-----------------------------------------------------------------------------
(* loading_displaying.js: _getTintedImageCanvas() *)

\* the channel levels the model's pixels take
PixelLevels == {0, 1, 128, 255}
Pixels == [1..4 -> PixelLevels]

\* img.canvas is absent (pixels = <<>>) or holds the pixels listed
SourceImages ==
    {[canvas |-> TRUE, pixels |-> <<px>>] : px \in Pixels}
    \cup {[canvas |-> TRUE, pixels |-> <<>>],
          [canvas |-> TRUE,
           pixels |-> << <<255, 255, 255, 255>>, <<10, 20, 30, 255>> >>],
          [canvas |-> FALSE, pixels |-> <<>>]}

\* the store of a number num / den (den > 0) into a Uint8ClampedArray:
\* clamped to 0..255 and rounded to nearest, ties to even
ToUint8Clamp(num, den) ==
    LET q == num \div den
        r == num % den
        n == IF 2 * r > den \/ (2 * r = den /\ q % 2 = 1) THEN q + 1 ELSE q
    IN IF n < 0 THEN 0 ELSE IF n > 255 THEN 255 ELSE n

\* the tint scaled by 256 instead of 255
TintChannel_by256(channel, level) == ToUint8Clamp(channel * level, 256)

\* newPixels[i] = channel * this._renderer._tint[k] / 255
TintChannel(channel, level) == ToUint8Clamp(channel * level, 255)

\* what the call returns ("img": the image itself), with the tint in force
_getTintedImageCanvas(img) ==
    IF ~img.canvas
    THEN [kind |-> "img", tint |-> tintLevels, pixels |-> img.pixels]
    ELSE IF img.pixels # <<>> /\ tintLevels = <<>>
         THEN [kind |-> "TypeError", tint |-> tintLevels, pixels |-> <<>>]
         ELSE [kind |-> "canvas", tint |-> tintLevels,
               pixels |-> [i \in 1..Len(img.pixels) |->
                             [k \in 1..4 |->
                                TintChannel(img.pixels[i][k], tintLevels[k])]]]

GetTintedImageCanvas ==
    /\ tinted' = <<_getTintedImageCanvas(srcImage)>>
    /\ UNCHANGED <<rvars, ivars, srcImage, loads>>

-----------------------------------------------------------------------------
(* loading_displaying.js: loadImage() *)

\* Callbacks are function values; "notfn" is an argument that is no function.
Fns == {"f", "g", "dec"}

\* a path, as its leading part and the rest
Paths == {<<"data:image/", "png;base64">>, <<"assets/", "a.jpg">>}

\* loadImage(path, successCallback, failureCallback, ...) after path
LoadArgs == ArgLists(<< {"f", "dec", "notfn"}, {"g", "dec"}, {"dec"} >>)

IsFunction(a) == a # <<>> /\ a[1] \in Fns

\* p5._getDecrementPreload.apply(this, arguments): undefined, or a function
\* among the arguments
_getDecrementPreload(args) ==
    {<<>>} \cup {<<args[i]>> : i \in {j \in 1..Len(args) : args[j] \in Fns}}

\* the body of loadImage(): the request it leaves in flight
loadImage(path, args, decrementPreload) ==
    [path |-> path,
     successCallback |-> Arg(args, 1),
     failureCallback |-> Arg(args, 2),
     decrementPreload |-> decrementPreload,
     crossOrigin |-> path[1] # "data:image/",
     st |-> "loading",
     reported |-> FALSE,
     calls |-> <<>>]

LoadImage ==
    /\ Len(loads) < MaxLoads
    /\ \E path \in Paths, args \in LoadArgs :
          \E dec \in _getDecrementPreload(args) :
             loads' = Append(loads, loadImage(path, args, dec))
    /\ UNCHANGED <<rvars, ivars, tvars>>

\* img.onload without the test successCallback !== decrementPreload
onload_noIdentityTest(r) ==
    [r EXCEPT
       !.st = "loaded",
       !.calls = @
          \o (IF IsFunction(r.successCallback)
              THEN << <<r.successCallback[1], "pImg">> >> ELSE <<>>)
          \o (IF r.decrementPreload # <<>>
              THEN << <<r.decrementPreload[1], "none">> >> ELSE <<>>)]

\* img.onload: the calls it makes, each <<function, argument>>
onload(r) ==
    [r EXCEPT
       !.st = "loaded",
       !.calls = @
          \o (IF IsFunction(r.successCallback)
              THEN << <<r.successCallback[1], "pImg">> >> ELSE <<>>)
          \o (IF r.decrementPreload # <<>>
                 /\ r.successCallback # r.decrementPreload
              THEN << <<r.decrementPreload[1], "none">> >> ELSE <<>>)]

OnLoad ==
    /\ \E i \in 1..Len(loads) :
          /\ loads[i].st = "loading"
          /\ loads' = [loads EXCEPT ![i] = onload(loads[i])]
    /\ UNCHANGED <<rvars, ivars, tvars>>

\* img.onerror
onerror(r) ==
    [r EXCEPT
       !.st = "failed",
       !.reported = TRUE,
       !.calls = @
          \o (IF IsFunction(r.failureCallback)
                 /\ r.failureCallback # r.decrementPreload
              THEN << <<r.failureCallback[1], "event">> >> ELSE <<>>)]

OnError ==
    /\ \E i \in 1..Len(loads) :
          /\ loads[i].st = "loading"
          /\ loads' = [loads EXCEPT ![i] = onerror(loads[i])]
    /\ UNCHANGED <<rvars, ivars, tvars>>

\* how many times request r has called function f
RECURSIVE CountCalls(_, _)
CountCalls(calls, f) ==
    IF calls = <<>> THEN 0
    ELSE (IF calls[1][1] = f THEN 1 ELSE 0) + CountCalls(Tail(calls), f)

-----------------------------------------------------------------------------
(* Specifications *)

IdleImage == drawImg = Bitmap(1, 1) /\ drawArgs = <<0, 0>> /\ drawCall = <<>>
IdleTint == srcImage = [canvas |-> FALSE, pixels |-> <<>>] /\ tinted = <<>>
IdleLoads == loads = <<>>

\* the renderer's commands
Init == InitRenderer(SurfaceSizes) /\ IdleImage /\ IdleTint /\ IdleLoads
Next == Camera \/ Perspective \/ Ortho \/ Tint \/ NoTint \/ ImageMode
Spec == Init /\ [][Next]_vars

\* image() under the image modes
InitImage ==
    /\ InitRenderer({<<100, 100>>})
    /\ drawImg \in Images /\ drawArgs \in DrawArgs /\ drawCall = <<>>
    /\ IdleTint /\ IdleLoads
NextImage == ImageMode \/ Image
SpecImage == InitImage /\ [][NextImage]_vars

\* _getTintedImageCanvas() under the tints
InitTint ==
    /\ InitRenderer({<<100, 100>>})
    /\ IdleImage
    /\ srcImage \in SourceImages /\ tinted = <<>>
    /\ IdleLoads
NextTint == Tint \/ NoTint \/ GetTintedImageCanvas
SpecTint == InitTint /\ [][NextTint]_vars

\* loadImage() requests and their completion events
InitLoad == InitRenderer({<<100, 100>>}) /\ IdleImage /\ IdleTint /\ IdleLoads
NextLoad == LoadImage \/ OnLoad \/ OnError
SpecLoad == InitLoad /\ [][NextLoad]_vars

-----------------------------------------------------------------------------
(* Properties *)

\* a step that is one call on the renderer
IsCall(op) == nCalls' = nCalls + 1 /\ lastOp' = op

\* C1: from the first perspective() or ortho() call on, whatever its
\* arguments and whatever is called later, the projection kind is custom.
C1_CustomFromFirstProjection == projInvoked => curCamera = "custom"

C1_Witness ==
    /\ projInvoked
    /\ lastOp = "camera"
    /\ nCalls = MaxCalls
    /\ curCamera = "custom"

\* C2: imageMode(m) stores m when m is CORNER, CORNERS or CENTER and
\* otherwise leaves the stored mode as it was, so the stored mode is always
\* a recognized one.
C2_ImageModeValidated ==
    /\ [](imageMode \in RecognizedModes)
    /\ [][IsCall("imageMode") =>
            imageMode' = IF lastArgs' # <<>> /\ lastArgs'[1] \in RecognizedModes
                         THEN lastArgs'[1]
                         ELSE imageMode]_vars

C2_Witness ==
    /\ lastOp = "imageMode"
    /\ lastArgs = <<RADIUS>>
    /\ imageMode = CENTER

Neg(v) == <<-v[1], -v[2], -v[3]>>

RECURSIVE SumPositions(_)
SumPositions(h) ==
    IF h = <<>> THEN <<0, 0, 0>>
    ELSE LET t == SumPositions(Tail(h))
         IN <<h[1][1] + t[1], h[1][2] + t[2], h[1][3] + t[3]>>

C6_MalformedRejected ==
    [][IsCall("perspective")
       /\ ~ValidProjection(ResolvePerspective(lastArgs'))
       => UNCHANGED <<uPMatrix, curCamera>>]_vars

\* C8 as stated: ortho() uses every parameter passed, 0 included, and a
\* default only for a parameter that is omitted.
C8_ExplicitZeroKept ==
    lastOp = "ortho" =>
        \A i \in 1..Len(lastArgs) : uPMatrix.p[i] = lastArgs[i]

\* C9: camera() changes only the view matrix; perspective() and ortho()
\* leave the view matrix, the tint and the image mode as they were; tint(),
\* noTint() and imageMode() leave both matrices and the projection kind as
\* they were.
C9_Frame ==
    [][/\ IsCall("camera") =>
            UNCHANGED <<uPMatrix, curCamera, tintLevels, imageMode>>
       /\ IsCall("perspective") \/ IsCall("ortho") =>
            UNCHANGED <<uMVMatrix, tintLevels, imageMode>>
       /\ IsCall("tint") \/ IsCall("noTint") \/ IsCall("imageMode") =>
            UNCHANGED <<uMVMatrix, uPMatrix, curCamera>>]_vars

C9_Witness ==
    /\ lastOp = "ortho"
    /\ uMVMatrix # Identity
    /\ tintLevels # <<>>

\* C3: the source width image() keeps before the pixel-density correction is
\* sWidth when 0 < sWidth < defW and defW otherwise (sWidth omitted, <= 0 or
\* >= defW), and likewise sHeight against defH; so it lies in (0, defW] when
\* defW > 0.
ClampedTo(got, asked, def) ==
    /\ got = IF asked # <<>> /\ 0 < asked[1] /\ asked[1] < def
             THEN asked[1] ELSE def
    /\ def > 0 => 0 < got /\ got <= def

C3_SourceSizeClamped ==
    drawCall # <<>> =>
        LET c == drawCall[1]
        IN /\ ClampedTo(c.size[1], Arg(c.args, 7), c.defW)
           /\ ClampedTo(c.size[2], Arg(c.args, 8), c.defH)
           /\ c.src.w = c.size[1] * PixelDensity(c.img)[1]
           /\ c.src.h = c.size[2] * PixelDensity(c.img)[1]

C3_Witness ==
    /\ drawCall # <<>>
    /\ Arg(drawCall[1].args, 7) = <<-1>>
    /\ Arg(drawCall[1].args, 8) = <<1>>
    /\ drawCall[1].defW = 3
    /\ drawCall[1].defH = 2
    /\ drawCall[1].size = <<3, 1>>

\* C4 as stated: with dWidth and dHeight omitted, the destination rectangle
\* image() hands on has the image's natural width and height in every mode.
C4_NaturalSizeInEveryMode ==
    drawCall # <<>> /\ Len(drawCall[1].args) = 2 =>
        /\ drawCall[1].dest.w = drawCall[1].defW
        /\ drawCall[1].dest.h = drawCall[1].defH

\* C7: each tinted channel is channel * tint / 255 rounded to the nearest
\* level; a white opaque pixel comes out as the tint itself, and under a
\* tint (255, 255, 255, A) an opaque pixel keeps R, G, B and gets alpha A.
C7_TintIdentity ==
    tinted # <<>> /\ tinted[1].kind = "canvas" =>
        \A i \in 1..Len(srcImage.pixels) :
            LET src == srcImage.pixels[i]
                out == tinted[1].pixels[i]
                t == tinted[1].tint
            IN /\ \A k \in 1..4 :
                     2 * Abs(255 * out[k] - src[k] * t[k]) <= 255
               /\ src = <<255, 255, 255, 255>> => out = t
               /\ t[1] = 255 /\ t[2] = 255 /\ t[3] = 255 /\ src[4] = 255 =>
                     out = <<src[1], src[2], src[3], t[4]>>

C7_Witness ==
    /\ tinted # <<>>
    /\ tinted[1].kind = "canvas"
    /\ tinted[1].tint = <<255, 255, 255, 128>>
    /\ srcImage.pixels = << <<128, 1, 0, 255>> >>
    /\ tinted[1].pixels = << <<128, 1, 0, 128>> >>

=============================================================================
